---- MODULE Spec2Model ----
(***************************************************************************)
(* Rollout inference of the sintering-physics example                      *)
(* (examples/additive_manufacturing/sintering_physics/inference.py).       *)
(*                                                                         *)
(* The model follows Inference(): the loop over the dataset, the one-time  *)
(* warmup call and checkpoint load, the per-example autoregressive loop    *)
(* with its context windowing and sliding position window, and the         *)
(* assembly and writing of one JSON record per example.                    *)
(*                                                                         *)
(* Data layout.  A position tensor [particles, time, dim] is modelled as a *)
(* sequence over time of snapshots; a snapshot is a tuple holding one      *)
(* number per particle.  A context tensor [L, 1] is a sequence of numbers; *)
(* a tensor reshaped to [1, -1] is a sequence holding one row.  Python's   *)
(* None is the value None below, anything else is Some(v).                 *)
(***************************************************************************)
EXTENDS Integers, Sequences, FiniteSets, TLC

\* ------------------------------------------------------------------ bounds
\* Longest dataset the iterator yields.
MaxExamples == 2
\* Largest number of rollout steps an example's context asks for.
MaxRolloutSteps == 6

\* ------------------------------------------------------- program constants
INPUT_SEQUENCE_LENGTH == 5
PREDICT_LENGTH == 1
KINEMATIC_PARTICLE_ID == 0
METAL_PARTICLE_ID == 2
ANCHOR_PLANE_PARTICLE_ID == 1

\* ------------------------------------------------------------ input domains
\* Particles of an example.  A position coordinate is a number modulo 5.
Particles == 1..2
\* Seeds that tell the examples of a dataset apart.
Seeds == {0, 1}
\* The split name and the two parameter sets of the simulator: the freshly
\* constructed ones and the ones of the checkpoint.
eval_split == "test"
InitialParams == 1
CheckpointParams == 2

None == [isNone |-> TRUE, v |-> <<>>]
Some(x) == [isNone |-> FALSE, v |-> x]

\* ------------------------------------------------------------------ tensors
RECURSIVE SumSeq(_)
SumSeq(s) == IF s = <<>> THEN 0 ELSE Head(s) + SumSeq(Tail(s))

\* Python slices t[:n] and t[n:] for n >= 0, and t[:-1].
Prefix(t, n) == SubSeq(t, 1, IF n < Len(t) THEN n ELSE Len(t))
DropFirst(t, n) == SubSeq(t, n + 1, Len(t))
AllButLast(t) == SubSeq(t, 1, Len(t) - 1)
Last(t) == t[Len(t)]

\* torch.zeros([n, 1]); a negative n raises.
ZerosOK(n) == n >= 0
Zeros(n) == [j \in 1..n |-> 0]

\* torch.reshape(t, [1, -1]) of a [n, 1] tensor: one row.
ReshapeRow(t) == <<t>>

\* ----------------------------------------------------------------- dataset
\* The features of one example.  position holds the whole ground-truth
\* trajectory, step_context one value per trajectory step (or is absent).
PositionOf(seed, len) ==
    [t \in 1..len |-> [p \in Particles |-> (seed + 2 * t + p) % 5]]
ParticleTypeOf(seed) ==
    [p \in Particles |-> IF p = 1 THEN (IF seed = 0 THEN KINEMATIC_PARTICLE_ID
                                                     ELSE ANCHOR_PLANE_PARTICLE_ID)
                                  ELSE METAL_PARTICLE_ID]
ContextOf(seed, len) == [j \in 1..len |-> 1 + ((seed + j) % 3)]
\* The graph of an example: the edges' senders and receivers and the counts.
TopologyOf(seed) ==
    LET senders == IF seed = 0 THEN <<1, 2>> ELSE <<1>>
        receivers == IF seed = 0 THEN <<2, 1>> ELSE <<2>>
    IN  [senders |-> senders, receivers |-> receivers,
         n_particles_per_example |-> Cardinality(Particles),
         n_edges_per_example |-> Len(senders)]

ContextLengths ==
    (INPUT_SEQUENCE_LENGTH - 1)..(INPUT_SEQUENCE_LENGTH + MaxRolloutSteps)

ExampleWithContext(seed, len) ==
    [position |-> PositionOf(seed, len),
     topology |-> TopologyOf(seed),
     particle_type |-> ParticleTypeOf(seed),
     step_context |-> Some(ContextOf(seed, len))]
ExampleWithoutContext(seed) ==
    [position |-> PositionOf(seed, INPUT_SEQUENCE_LENGTH + 1),
     topology |-> TopologyOf(seed),
     particle_type |-> ParticleTypeOf(seed),
     step_context |-> None]

Examples ==
    {ExampleWithContext(s, l) : s \in Seeds, l \in ContextLengths}
        \cup {ExampleWithoutContext(s) : s \in Seeds}

Datasets == UNION {[1..n -> Examples] : n \in 1..MaxExamples}

\* The values the configuration gives C.mode.
Modes == {"rollout", "train", "eval"}

\* --------------------------------------------------------------- simulator
\* LearnedSimulator.inference: a deterministic function of the parameters,
\* the position window, the graph, the particle types and the context row.
\* It returns PREDICT_LENGTH snapshots.
WeightedHistory(position_sequence, p) ==
    SumSeq([t \in 1..Len(position_sequence) |-> t * position_sequence[t][p]])
WeightedContext(row) == SumSeq([j \in 1..Len(row) |-> j * row[j]])
WeightedEdges(topology) ==
    SumSeq(topology.senders) + 2 * SumSeq(topology.receivers)
        + topology.n_particles_per_example + topology.n_edges_per_example
LearnedSimulator_inference(params, position_sequence, topology, particle_types, context) ==
    [n \in 1..PREDICT_LENGTH |->
        [p \in Particles |->
            (params + n + WeightedHistory(position_sequence, p)
                + WeightedEdges(topology)
                + particle_types[p] + WeightedContext(context[1])) % 5]]

\* ------------------------------------------------------------------- state
VARIABLES
    mode,                 \* C.mode, the configured mode
    dataset,              \* the examples the iterator yields, in order
    yielded,              \* how many examples the iterator has yielded
    pc,                   \* position in Inference()
    error,                \* the exception that ended the run, or "none"
    model_params,         \* the parameters the simulator holds
    loaded,
    example_index,
    features,             \* the example at hand
    global_context,
    read_step_context,
    zero_pad,
    global_context_step,
    initial_positions,
    num_steps,
    current_positions,
    updated_predictions,
    step,
    rollout_op,
    output_path_exists,
    files,                \* file name -> content
    sim_calls,            \* log of the simulator invocations
    writes                \* log of the files opened for writing

vars == <<mode, dataset, yielded, pc, error, model_params, loaded, example_index,
          features, global_context, read_step_context, zero_pad,
          global_context_step, initial_positions, num_steps, current_positions, updated_predictions, step, rollout_op,
          output_path_exists, files, sim_calls, writes>>

NoFeatures ==
    [position |-> <<>>,
     topology |-> [senders |-> <<>>, receivers |-> <<>>,
                   n_particles_per_example |-> 0, n_edges_per_example |-> 0],
     particle_type |-> <<>>, step_context |-> None]
NoRecord ==
    [initial_positions |-> <<>>, predicted_rollout |-> <<>>,
     particle_types |-> <<>>, global_context |-> <<>>]

Init ==
    /\ mode \in Modes
    /\ dataset \in Datasets
    /\ output_path_exists \in BOOLEAN
    /\ yielded = 0
    /\ pc = "main"
    /\ error = "none"
    /\ model_params = InitialParams
    /\ loaded = FALSE
    /\ example_index = 0
    /\ features = NoFeatures
    /\ global_context = None
    /\ read_step_context = <<>>
    /\ zero_pad = <<>>
    /\ global_context_step = None
    /\ initial_positions = <<>>
    /\ num_steps = 0
    /\ current_positions = <<>>
    /\ updated_predictions = <<>>
    /\ step = 0
    /\ rollout_op = NoRecord
    /\ files = <<>>
    /\ sim_calls = <<>>
    /\ writes = <<>>

\* Mutant: the exception is swallowed and the statement runs again.
Raise_Retry(name) ==
    /\ pc' = pc
    /\ error' = error

\* An uncaught exception leaves Inference(): nothing in it catches.
Raise(name) ==
    /\ pc' = "raised"
    /\ error' = name

\* ------------------------------------------------------- context windowing
\* Mutant: one rollout step too many.
NumSteps_OneMore(context) == Len(context) - INPUT_SEQUENCE_LENGTH + 1

\* num_steps = global_context.shape[0] - INPUT_SEQUENCE_LENGTH
NumSteps(context) == Len(context) - INPUT_SEQUENCE_LENGTH

\* Mutant: the prefix read is one value short.
ReadStepContext_Short(context, k) ==
    Prefix(context, k + INPUT_SEQUENCE_LENGTH - 1)

\* read_step_context = global_context[: step + INPUT_SEQUENCE_LENGTH]
ReadStepContext(context, k) == Prefix(context, k + INPUT_SEQUENCE_LENGTH)

\* global_context.shape[0] - read_step_context.shape[0] - 1
ZeroPadLength(context, read) == Len(context) - Len(read) - 1

\* torch.reshape(torch.cat([read_step_context, zero_pad], 0), [1, -1])
GlobalContextStep(read, pad) == ReshapeRow(read \o pad)

\* range(num_steps) still has the value k to give.
InRange(k, n) == k < n

\* Mutant: the warmup is given the whole context.
WarmupContextStep_Whole(context) == ReshapeRow(context)

\* The context row of the warmup call: global_context[:-1], reshaped.
WarmupContextStep(context) == ReshapeRow(AllButLast(context))

\* ---------------------------------------------------------- sliding window
\* Mutant: the window of the example before is carried over.
InitialPositions_Stale(position) ==
    IF current_positions # <<>> THEN current_positions
    ELSE Prefix(position, INPUT_SEQUENCE_LENGTH)

\* features["position"][:, :INPUT_SEQUENCE_LENGTH]
InitialPositions(position) == Prefix(position, INPUT_SEQUENCE_LENGTH)

\* utils.get_kinematic_mask(features["particle_type"]).to(torch.bool)
KinematicMask(particle_types) ==
    [p \in Particles |-> particle_types[p] = KINEMATIC_PARTICLE_ID]

\* Mutant: the mask is applied, a kinematic particle keeps the position it
\* has in the window.
NextPosition_Masked(predict_positions, kinematic_mask) ==
    [p \in Particles |-> IF kinematic_mask[p]
                         THEN current_positions[Len(current_positions)][p]
                         ELSE predict_positions[1][p]]

\* predict_positions[:, 0].squeeze(1); the mask is computed and not applied:
\* next_position = predict_positions
NextPosition(predict_positions, kinematic_mask) == predict_positions[1]

\* Mutant: the list of the example before is kept.
EmptyPredictions_Kept == updated_predictions

\* updated_predictions = []
EmptyPredictions == <<>>

\* Mutant: the new prediction is put in front of the earlier ones.
AppendPrediction_Front(predictions, next_position) ==
    <<next_position>> \o predictions

\* updated_predictions.append(next_position)
AppendPrediction(predictions, next_position) ==
    Append(predictions, next_position)

\* Mutant: the newest snapshot of the window is dropped, not the oldest.
AdvanceWindow_DropNewest(positions, next_position) ==
    AllButLast(positions) \o <<next_position>>

\* Mutant: the new snapshot is appended and the oldest is kept.
AdvanceWindow_KeepOldest(positions, next_position) ==
    positions \o <<next_position>>

\* torch.cat([current_positions[:, 1:], next_position.unsqueeze(1)], axis=1)
AdvanceWindow(positions, next_position) ==
    DropFirst(positions, 1) \o <<next_position>>

\* ------------------------------------------------------------------ output
Digit(d) == <<"0", "1", "2", "3", "4", "5", "6", "7", "8", "9">>[d + 1]
RECURSIVE Decimal(_)
Decimal(n) ==
    IF n < 10 THEN <<Digit(n)>> ELSE Decimal(n \div 10) \o <<Digit(n % 10)>>

\* Mutant: the file name leaves the example index out.
Filename_NoIndex(split, index) ==
    <<"output_path", "/", "rollout_", split, ".json">>

\* os.path.join(C.output_path, f"rollout_{C.eval_split}_{example_index}.json")
Filename(split, index) ==
    <<"output_path", "/", "rollout_", split, "_">> \o Decimal(index) \o <<".json">>

metadata == "metadata"

\* Mutant: the record takes the window as it is after the rollout.
RolloutOp_SlidWindow(initial, predictions, particle_types, context) ==
    [initial_positions |-> current_positions,
     predicted_rollout |-> predictions,
     particle_types |-> particle_types,
     global_context |-> context]

\* rollout_op, as built from the tensors' lists.
RolloutOp(initial, predictions, particle_types, context) ==
    [initial_positions |-> initial,
     predicted_rollout |-> predictions,
     particle_types |-> particle_types,
     global_context |-> context]

\* What a file holds: the dumped record, or what an interrupted dump left.
Dumped(op) == [complete |-> TRUE, record |-> op, metadata |-> metadata]
Truncated == [complete |-> FALSE, record |-> NoRecord, metadata |-> metadata]

\* One simulator invocation, as the simulator sees it, with what it returns
\* (nothing when it raises).
Call(kind, k, positions, context, ok) ==
    [example |-> yielded, kind |-> kind, step |-> k,
     position_sequence |-> positions,
     topology |-> features.topology,
     particle_types |-> features.particle_type,
     global_context |-> context, params |-> model_params, ok |-> ok,
     output |-> IF ok
                THEN LearnedSimulator_inference(model_params, positions,
                         features.topology, features.particle_type, context.v)
                ELSE <<>>]

\* ----------------------------------------------------------------- actions
\* Mutant: every mode is taken for the rollout mode.
ModeIsRollout_Any(m) == TRUE

\* C.mode == "rollout"
ModeIsRollout(m) == m = "rollout"

\* main(): enter Inference() in the rollout mode, raise in any other.
\* Inference() sets loaded and example_index before its dataset loop.
Main ==
    /\ pc = "main"
    /\ IF ModeIsRollout(mode)
       THEN /\ loaded' = FALSE
            /\ example_index' = 0
            /\ pc' = "for_dataset"
            /\ UNCHANGED error
       ELSE /\ Raise("NotImplementedError")
            /\ UNCHANGED <<loaded, example_index>>
    /\ UNCHANGED <<mode, dataset, yielded, model_params, features,
                   global_context, read_step_context, zero_pad,
                   global_context_step, initial_positions, num_steps,
                   current_positions, updated_predictions, step, rollout_op,
                   output_path_exists, files, sim_calls, writes>>

\* Mutant: the warmup and the load are run for every example.
NotLoaded_Always(l) == TRUE

\* if loaded is False
NotLoaded(l) == l = FALSE

\* for features, targets in tqdm(dataset)
ForDataset ==
    /\ pc = "for_dataset"
    /\ IF yielded < Len(dataset)
       THEN /\ features' = dataset[yielded + 1]
            /\ yielded' = yielded + 1
            /\ pc' = IF NotLoaded(loaded) THEN "warmup" ELSE "rollout_init"
       ELSE /\ pc' = "returned"
            /\ UNCHANGED <<features, yielded>>
    /\ UNCHANGED <<mode, dataset, error, model_params, loaded, example_index,
                   global_context, read_step_context, zero_pad,
                   global_context_step, initial_positions,
                   num_steps, current_positions, updated_predictions, step,
                   rollout_op, output_path_exists, files, sim_calls, writes>>

\* The forward pass on the CPU before the parameters are loaded.
Warmup ==
    /\ pc = "warmup"
    /\ UNCHANGED <<mode, dataset, yielded, model_params, loaded, example_index,
                   features, read_step_context, zero_pad, initial_positions,
                   num_steps, current_positions, updated_predictions, step,
                   rollout_op, output_path_exists, files, writes>>
    /\ IF features.step_context.isNone
       THEN \* None has no method to()
            /\ Raise("AttributeError")
            /\ UNCHANGED <<global_context, global_context_step, sim_calls>>
       ELSE /\ global_context' = features.step_context
            /\ global_context_step' =
                   IF global_context'.isNone THEN None
                   ELSE Some(WarmupContextStep(global_context'.v))
            /\ IF global_context_step'.isNone
               THEN /\ Raise("AttributeError")
                    /\ UNCHANGED sim_calls
               ELSE \E ok \in BOOLEAN :
                    /\ sim_calls' = Append(sim_calls,
                          Call("warmup", 0, InitialPositions(features.position),
                               global_context_step', ok))
                    /\ IF ok THEN pc' = "load" /\ UNCHANGED error
                             ELSE Raise("SimulatorInvocationError")

\* model.load_state_dict(torch.load(C.ckpt_path_vfgn), strict=False)
Load ==
    /\ pc = "load"
    /\ \E ok \in BOOLEAN :
         IF ok
         THEN /\ model_params' = CheckpointParams
              /\ loaded' = TRUE
              /\ pc' = "rollout_init"
              /\ UNCHANGED error
         ELSE /\ Raise("CheckpointError")
              /\ UNCHANGED <<model_params, loaded>>
    /\ UNCHANGED <<mode, dataset, yielded, example_index, features, global_context,
                   read_step_context, zero_pad,
                   global_context_step, initial_positions, num_steps,
                   current_positions, updated_predictions, step, rollout_op,
                   output_path_exists, files, sim_calls, writes>>

\* The per-example set-up before the step loop.
RolloutInit ==
    /\ pc = "rollout_init"
    /\ initial_positions' = InitialPositions(features.position)
    /\ UNCHANGED <<mode, dataset, yielded, model_params, loaded, example_index,
                   features, read_step_context, zero_pad, global_context_step,
                   rollout_op, output_path_exists, files, sim_calls, writes>>
    /\ IF features.step_context.isNone
       THEN /\ Raise("AttributeError")
            /\ UNCHANGED <<global_context, num_steps, current_positions,
                           updated_predictions, step>>
       ELSE /\ global_context' = features.step_context
            /\ num_steps' = NumSteps(global_context'.v)
            /\ current_positions' = initial_positions'
            /\ updated_predictions' = EmptyPredictions
            /\ step' = 0
            /\ pc' = "for_step"
            /\ UNCHANGED error

\* One pass of: for step in range(num_steps)
RolloutStep ==
    /\ pc = "for_step"
    /\ InRange(step, num_steps)
    /\ UNCHANGED <<mode, dataset, yielded, model_params, loaded, example_index,
                   features, global_context, initial_positions, num_steps,
                   rollout_op, output_path_exists, files, writes>>
    /\ IF global_context.isNone
       THEN /\ global_context_step' = None
            \* None has no method to()
            /\ Raise("AttributeError")
            /\ UNCHANGED <<read_step_context, zero_pad, current_positions,
                           updated_predictions, step, sim_calls>>
       ELSE /\ read_step_context' = ReadStepContext(global_context.v, step)
            /\ IF ~ZerosOK(ZeroPadLength(global_context.v, read_step_context'))
               THEN /\ Raise("RuntimeError: negative dimension")
                    /\ UNCHANGED <<zero_pad, global_context_step,
                                   current_positions, updated_predictions,
                                   step, sim_calls>>
               ELSE
                   /\ zero_pad' =
                          Zeros(ZeroPadLength(global_context.v, read_step_context'))
                   /\ global_context_step' =
                          Some(GlobalContextStep(read_step_context', zero_pad'))
                   /\ \E ok \in BOOLEAN :
                        /\ sim_calls' = Append(sim_calls,
                              Call("step", step, current_positions,
                                   global_context_step', ok))
                        /\ IF ok
                           THEN LET predict_positions ==
                                        LearnedSimulator_inference(model_params,
                                            current_positions, features.topology,
                                            features.particle_type,
                                            global_context_step'.v)
                                    kinematic_mask ==
                                        KinematicMask(features.particle_type)
                                    next_position ==
                                        NextPosition(predict_positions, kinematic_mask)
                                IN  /\ updated_predictions' =
                                           AppendPrediction(updated_predictions, next_position)
                                    /\ current_positions' =
                                           AdvanceWindow(current_positions, next_position)
                                    /\ step' = step + 1
                                    /\ UNCHANGED <<pc, error>>
                           ELSE /\ Raise("SimulatorInvocationError")
                                /\ UNCHANGED <<current_positions,
                                               updated_predictions, step>>

\* After the step loop: stack the predictions, build the record, write it.
WriteRollout ==
    /\ pc = "for_step"
    /\ ~InRange(step, num_steps)
    /\ UNCHANGED <<mode, dataset, yielded, model_params, loaded, features,
                   global_context, read_step_context, zero_pad,
                   global_context_step, initial_positions,
                   num_steps, current_positions, updated_predictions, step,
                   sim_calls>>
    /\ IF updated_predictions = <<>>
       THEN \* torch.stack of an empty list raises
            /\ Raise("RuntimeError: stack of an empty list")
            /\ UNCHANGED <<example_index, rollout_op, output_path_exists,
                           files, writes>>
       ELSE /\ rollout_op' = RolloutOp(initial_positions, updated_predictions,
                                      features.particle_type, global_context.v)
            /\ output_path_exists' = TRUE
            /\ \E outcome \in {"written", "open fails", "dump fails"} :
                 LET filename == Filename(eval_split, example_index) IN
                 CASE outcome = "written" ->
                        /\ files' = (filename :> Dumped(rollout_op')) @@ files
                        /\ writes' = Append(writes, <<filename, yielded>>)
                        /\ example_index' = example_index + 1
                        /\ pc' = "for_dataset"
                        /\ UNCHANGED error
                   [] outcome = "open fails" ->
                        /\ Raise("OSError")
                        /\ UNCHANGED <<files, writes, example_index>>
                   [] outcome = "dump fails" ->
                        /\ files' = (filename :> Truncated) @@ files
                        /\ writes' = Append(writes, <<filename, yielded>>)
                        /\ Raise("OSError")
                        /\ UNCHANGED example_index

Next ==
    \/ Main
    \/ ForDataset
    \/ Warmup
    \/ Load
    \/ RolloutInit
    \/ RolloutStep
    \/ WriteRollout

Spec == Init /\ [][Next]_vars

\* ================================================================== claims
\* A rollout step is about to run: the step loop holds a value for step.
StepAtHand == pc = "for_step" /\ InRange(step, num_steps)

\* C1 (window invariant): once a rollout step of an example has appended a
\* prediction, current_positions holds exactly INPUT_SEQUENCE_LENGTH
\* snapshots and its last one is the prediction appended last.
C1_WindowInvariant ==
    updated_predictions # <<>> =>
        /\ Len(current_positions) = INPUT_SEQUENCE_LENGTH
        /\ Last(current_positions) = Last(updated_predictions)

\* C1 witness: the second example of a run has finished a rollout of at
\* least two steps.
C1_Witness ==
    /\ yielded = 2
    /\ pc = "for_step"
    /\ num_steps >= 2
    /\ step = num_steps
    /\ Len(updated_predictions) = num_steps

\* C2 (context padding): every executed rollout step k of an example with a
\* context of length L builds a zero padding of length L - 1 - (k + W); the
\* length is never negative (building the padding never raises) and it is 0
\* at the final step k = num_steps - 1.
C2_ContextPadding ==
    [][StepAtHand =>
        /\ error' # "RuntimeError: negative dimension"
        /\ Len(zero_pad') =
              Len(global_context.v) - 1 - (step + INPUT_SEQUENCE_LENGTH)
        /\ Len(zero_pad') >= 0
        /\ (step = num_steps - 1 => Len(zero_pad') = 0)]_vars

\* C2 witness: the final step of a rollout of at least two steps has been
\* executed, after a step whose padding was not empty, and it left an empty
\* padding.
C2_Witness ==
    /\ pc = "for_step"
    /\ num_steps >= 2
    /\ step = num_steps
    /\ zero_pad = <<>>
    /\ \E c \in 1..Len(sim_calls) :
         /\ sim_calls[c].kind = "step"
         /\ sim_calls[c].example = yielded
         /\ sim_calls[c].global_context.v[1][Len(global_context.v) - 1] = 0


\* ---------------------------------------------------------------------------
\* The context sequence of the n-th example yielded (n from 1), and the
\* number of rollout steps it asks for.
ContextOfExample(n) == dataset[n].step_context.v
StepsOfExample(n) == Len(ContextOfExample(n)) - INPUT_SEQUENCE_LENGTH
CallsOf(n) == {c \in 1..Len(sim_calls) : sim_calls[c].example = n}
StepCallsOf(n) == {c \in CallsOf(n) : sim_calls[c].kind = "step"}
WritesOf(n) == {w \in 1..Len(writes) : writes[w][2] = n}

\* C3 (trajectory length): whatever the context length L, the trajectory
\* stored for an example has exactly L - W snapshots; a rollout of 0 steps
\* (L = W) is stored too, as a trajectory of length 0: stacking its
\* predictions does not raise.
C3_TrajectoryLength ==
    /\ \A w \in 1..Len(writes) :
         files[writes[w][1]].complete =>
             Len(files[writes[w][1]].record.predicted_rollout)
                 = StepsOfExample(writes[w][2])
    /\ ~(/\ error = "RuntimeError: stack of an empty list"
          /\ Len(global_context.v) = INPUT_SEQUENCE_LENGTH)

\* C4 (no-context path): an example without a global context gets no context
\* vector at any simulator call, and its absence does not end its rollout.
C4_NoContextPath ==
    /\ \A c \in 1..Len(sim_calls) :
         dataset[sim_calls[c].example].step_context.isNone
             => sim_calls[c].global_context.isNone
    /\ ~(pc = "raised" /\ error = "AttributeError"
            /\ features.step_context.isNone)

\* C5 (example independence): a failing simulator call of example i changes
\* no file written before, and does not keep example i+1 from running.
C5_ExampleIndependence ==
    [][(pc = "for_step" /\ error' = "SimulatorInvocationError") =>
        /\ files' = files
        /\ (yielded < Len(dataset) => pc' # "raised")]_vars

\* C6 (determinism): two examples of a run with identical features see the
\* same simulator inputs at each step they both reach, and the trajectories
\* written for them are identical.
C6_Determinism ==
    /\ \A c, d \in 1..Len(sim_calls) :
         (/\ sim_calls[c].kind = "step" /\ sim_calls[d].kind = "step"
          /\ sim_calls[c].step = sim_calls[d].step
          /\ dataset[sim_calls[c].example] = dataset[sim_calls[d].example])
         => /\ sim_calls[c].position_sequence = sim_calls[d].position_sequence
            /\ sim_calls[c].global_context = sim_calls[d].global_context
            /\ sim_calls[c].params = sim_calls[d].params
    /\ \A a, b \in 1..Len(writes) :
         (/\ dataset[writes[a][2]] = dataset[writes[b][2]]
          /\ files[writes[a][1]].complete /\ files[writes[b][1]].complete)
         => files[writes[a][1]].record.predicted_rollout
                = files[writes[b][1]].record.predicted_rollout

\* C6 witness: a run over two identical examples of at least two steps each
\* has written both.
C6_Witness ==
    /\ pc = "returned"
    /\ Len(dataset) = 2
    /\ dataset[1] = dataset[2]
    /\ num_steps >= 2
    /\ Len(writes) = 2
    /\ \A w \in 1..2 : files[writes[w][1]].complete

\* C7 (context vector): at every rollout step k the simulator is passed one
\* row of length L - 1: the first k + W values of the example's context, in
\* order, then zeros.
C7_ContextVector ==
    \A c \in 1..Len(sim_calls) :
        sim_calls[c].kind = "step" =>
            LET context == ContextOfExample(sim_calls[c].example)
                k == sim_calls[c].step
                passed == sim_calls[c].global_context
            IN  /\ ~passed.isNone
                /\ Len(passed.v) = 1
                /\ Len(passed.v[1]) = Len(context) - 1
                /\ k + INPUT_SEQUENCE_LENGTH <= Len(context) - 1
                /\ \A j \in 1..(Len(context) - 1) :
                     passed.v[1][j] = IF j <= k + INPUT_SEQUENCE_LENGTH
                                      THEN context[j] ELSE 0

\* C7 witness: a step after the first has been passed a row that ends in
\* zeros.
C7_Witness ==
    \E c \in 1..Len(sim_calls) :
        /\ sim_calls[c].kind = "step"
        /\ sim_calls[c].step >= 1
        /\ sim_calls[c].ok
        /\ Last(sim_calls[c].global_context.v[1]) = 0

\* C8 (no partial results): a file is opened for an example only after all
\* its rollout steps, each called once and none failing, have completed; and
\* once a simulator call of an example has failed, the example gets no file
\* and no further simulator call.
C8_NoPartialResults ==
    /\ \A w \in 1..Len(writes) :
         LET n == writes[w][2] IN
         /\ Cardinality(StepCallsOf(n)) = StepsOfExample(n)
         /\ \A c \in CallsOf(n) : sim_calls[c].ok
         /\ \A k \in 0..(StepsOfExample(n) - 1) :
              \E c \in StepCallsOf(n) : sim_calls[c].step = k
         /\ files[writes[w][1]].complete =>
                Len(files[writes[w][1]].record.predicted_rollout)
                    = StepsOfExample(n)
    /\ \A c \in 1..Len(sim_calls) :
         ~sim_calls[c].ok =>
             /\ WritesOf(sim_calls[c].example) = {}
             /\ \A d \in CallsOf(sim_calls[c].example) : d <= c

\* C8 witness: the second example's simulator call failed at a step after
\* its first, the first example's record being written.
C8_Witness ==
    /\ pc = "raised"
    /\ error = "SimulatorInvocationError"
    /\ yielded = 2
    /\ step >= 1
    /\ Len(writes) = 1
    /\ ~Last(sim_calls).ok

\* The name the n-th example's file is to have (n from 0).
NameByIndex(n) ==
    <<"output_path", "/", "rollout_", eval_split, "_">>
        \o Decimal(n) \o <<".json">>

\* C9 (one artifact per example): the n-th example yielded (n from 0) is
\* written once, to the file named by the split and n; no two examples write
\* the same file; example_index counts the completed examples; a run that
\* returns has written every example.
C9_OneArtifactPerExample ==
    /\ \A w \in 1..Len(writes) : writes[w][1] = NameByIndex(writes[w][2] - 1)
    /\ \A a, b \in 1..Len(writes) :
         a # b => /\ writes[a][1] # writes[b][1]
                  /\ writes[a][2] # writes[b][2]
    /\ example_index =
         Cardinality({w \in 1..Len(writes) : files[writes[w][1]].complete})
    /\ example_index = IF yielded = 0 \/ pc \in {"for_dataset", "returned"}
                       THEN yielded ELSE yielded - 1
    /\ pc = "returned" => \A n \in 1..Len(dataset) : Cardinality(WritesOf(n)) = 1

\* C9 witness: a run over two examples has returned with both files written.
C9_Witness ==
    /\ pc = "returned"
    /\ Len(dataset) = 2
    /\ example_index = 2
    /\ DOMAIN files = {NameByIndex(0), NameByIndex(1)}

\* C10 (write-failure isolation): a failure while writing example i's record
\* changes no other example's file and does not keep the examples after i
\* from being rolled out and written.
C10_WriteFailureIsolation ==
    [][(error = "none" /\ error' = "OSError") =>
        /\ \A f \in DOMAIN files :
             f # NameByIndex(example_index) =>
                 f \in DOMAIN files' /\ files'[f] = files[f]
        /\ (yielded < Len(dataset) => pc' # "raised")]_vars

\* C11 (unsupported mode): in any mode other than "rollout" the program
\* raises before Inference() is entered: the dataset loop yields nothing, the
\* simulator is never called, nothing is loaded and no file is written.
C11_UnsupportedModeFatal ==
    mode # "rollout" =>
        /\ pc \in {"main", "raised"}
        /\ pc = "raised" => error = "NotImplementedError"
        /\ yielded = 0
        /\ sim_calls = <<>>
        /\ model_params = InitialParams
        /\ writes = <<>>
        /\ files = <<>>

\* C11 witness: a run in an unsupported mode has raised, its dataset holding
\* an example that could have been rolled out.
C11_Witness ==
    /\ mode = "train"
    /\ pc = "raised"
    /\ error = "NotImplementedError"
    /\ Len(dataset[1].step_context.v) > INPUT_SEQUENCE_LENGTH

\* The n-th example's context is shorter than the window.
ContextTooShort(n) ==
    /\ ~dataset[n].step_context.isNone
    /\ Len(dataset[n].step_context.v) < INPUT_SEQUENCE_LENGTH

\* C12 (inconsistent context length): when an example of the dataset has a
\* context shorter than the window, the run ends before any rollout starts:
\* no rollout step of any example is executed and no file is written.
C12_InconsistentContextFatal ==
    (\E n \in 1..Len(dataset) : ContextTooShort(n)) =>
        /\ \A c \in 1..Len(sim_calls) :
             ~(sim_calls[c].kind = "step" /\ sim_calls[c].ok)
        /\ writes = <<>>

\* What the simulator returned for the logged invocation c: its first (and
\* only) predicted snapshot.
OutputOf(c) == sim_calls[c].output[1]

\* C13 (one-to-one accumulation): while an example is rolled out, and at its
\* terminal state step = num_steps, the simulator has been invoked exactly
\* once for each step 0..step-1, in that order, and predictions[k] is the
\* output of the invocation of step k; the record written holds the same.
C13_OneToOneAccumulation ==
    /\ pc = "for_step" =>
         LET mine == StepCallsOf(yielded) IN
         /\ Len(updated_predictions) = step
         /\ Cardinality(mine) = step
         /\ \A k \in 0..(step - 1) :
              \E c \in mine :
                  /\ sim_calls[c].step = k
                  /\ sim_calls[c].ok
                  /\ \A d \in mine : sim_calls[d].step = k => d = c
                  /\ updated_predictions[k + 1] = OutputOf(c)
         /\ \A c, d \in mine : c < d => sim_calls[c].step < sim_calls[d].step
    /\ \A w \in 1..Len(writes) :
         files[writes[w][1]].complete =>
             \A c \in StepCallsOf(writes[w][2]) :
                 files[writes[w][1]].record.predicted_rollout[sim_calls[c].step + 1]
                     = OutputOf(c)

\* C13 witness: an example has reached the terminal state of a rollout of
\* at least three steps whose predictions are not all equal.
C13_Witness ==
    /\ pc = "for_step"
    /\ num_steps >= 3
    /\ step = num_steps
    /\ \E j, k \in 1..Len(updated_predictions) :
         updated_predictions[j] # updated_predictions[k]

\* The first W snapshots of the n-th example, and the last W entries of a
\* sequence of at least W snapshots.
OwnInitialWindow(n) == SubSeq(dataset[n].position, 1, INPUT_SEQUENCE_LENGTH)
NewestW(snapshots) ==
    SubSeq(snapshots, Len(snapshots) - INPUT_SEQUENCE_LENGTH + 1, Len(snapshots))
\* The invocation of step k of the n-th example.
StepCall(n, k) == CHOOSE c \in StepCallsOf(n) : sim_calls[c].step = k

\* C14 (window content): at the start of every rollout step k the window is
\* the last W snapshots of the example's initial window followed by the
\* predictions 0..k-1, oldest first; so the simulator input of step k+1 ends
\* with the output of step k, and from k >= W on it holds predictions only.
C14_WindowContent ==
    /\ (pc = "for_step" /\ num_steps >= 1) =>
          current_positions =
              NewestW(OwnInitialWindow(yielded) \o updated_predictions)
    /\ \A c \in 1..Len(sim_calls) :
         sim_calls[c].kind = "step" =>
             LET n == sim_calls[c].example
                 k == sim_calls[c].step
                 window == sim_calls[c].position_sequence
             IN  /\ Len(window) = INPUT_SEQUENCE_LENGTH
                 /\ \A j \in 1..INPUT_SEQUENCE_LENGTH :
                      window[j] =
                          IF j + k <= INPUT_SEQUENCE_LENGTH
                          THEN OwnInitialWindow(n)[j + k]
                          ELSE OutputOf(StepCall(n,
                                   j + k - INPUT_SEQUENCE_LENGTH - 1))

\* C14 witness: a step k >= W has been called, so its window held
\* predictions only.
C14_Witness ==
    \E c \in 1..Len(sim_calls) :
        /\ sim_calls[c].kind = "step"
        /\ sim_calls[c].step >= INPUT_SEQUENCE_LENGTH
        /\ sim_calls[c].ok

\* The snapshots the n-th example's rollout starts from: its own first W
\* positions (all of them when it has fewer).
OwnStart(n) ==
    [t \in 1..(IF Len(dataset[n].position) < INPUT_SEQUENCE_LENGTH
               THEN Len(dataset[n].position) ELSE INPUT_SEQUENCE_LENGTH)
        |-> dataset[n].position[t]]
\* The snapshots that belong to the n-th example: its starting window and
\* the outputs of its own simulator invocations.
OwnSnapshots(n) ==
    {OwnStart(n)[t] : t \in 1..Len(OwnStart(n))}
        \cup {OutputOf(c) : c \in {d \in StepCallsOf(n) : sim_calls[d].ok}}

\* C15 (per-example state): every example's rollout starts at step 0 from
\* its own first W snapshots and an empty prediction list, and every window
\* passed to the simulator and every record written for it is made of its
\* own snapshots only, with no more predictions than its own steps.
C15_PerExampleState ==
    /\ (pc = "for_step" /\ step = 0) =>
          /\ current_positions = OwnStart(yielded)
          /\ updated_predictions = <<>>
    /\ pc = "for_step" =>
          LET own == OwnSnapshots(yielded) IN
          /\ Len(updated_predictions) <= Cardinality(StepCallsOf(yielded))
          /\ \A k \in 1..Len(updated_predictions) :
               updated_predictions[k] \in own
    /\ \A n \in 1..yielded :
         LET own == OwnSnapshots(n) IN
         /\ \A c \in CallsOf(n) :
              /\ sim_calls[c].particle_types = dataset[n].particle_type
              /\ (sim_calls[c].kind = "step" /\ sim_calls[c].step = 0) =>
                    sim_calls[c].position_sequence = OwnStart(n)
              /\ \A t \in 1..Len(sim_calls[c].position_sequence) :
                    sim_calls[c].position_sequence[t] \in own
         /\ \A w \in WritesOf(n) :
              files[writes[w][1]].complete =>
                  LET record == files[writes[w][1]].record
                  IN  /\ record.initial_positions = OwnStart(n)
                      /\ Len(record.predicted_rollout) = StepsOfExample(n)
                      /\ \A k \in 1..Len(record.predicted_rollout) :
                           record.predicted_rollout[k] \in own

\* C15 witness: the second example, unlike the first, is at the start of its
\* rollout after the first was rolled out for at least two steps and
\* written.
C15_Witness ==
    /\ yielded = 2
    /\ pc = "for_step"
    /\ step = 0
    /\ num_steps >= 1
    /\ dataset[1] # dataset[2]
    /\ Len(writes) = 1
    /\ Len(files[writes[1][1]].record.predicted_rollout) >= 2

\* The successful step invocations of the n-th example.
OkStepCallsOf(n) == {c \in StepCallsOf(n) : sim_calls[c].ok}

\* C16 (kinematic mask never applied): for every particle, whatever its
\* type, the position appended to the predictions at a step, fed back as the
\* newest window entry and written to the record is the position the
\* simulator predicted for it at that step.
C16_MaskNeverApplied ==
    /\ pc = "for_step" =>
          \A c \in OkStepCallsOf(yielded) :
              \A p \in Particles :
                  /\ updated_predictions[sim_calls[c].step + 1][p]
                        = OutputOf(c)[p]
                  /\ sim_calls[c].step = step - 1 =>
                        Last(current_positions)[p] = OutputOf(c)[p]
    /\ \A c, d \in 1..Len(sim_calls) :
          (/\ sim_calls[c].kind = "step" /\ sim_calls[d].kind = "step"
           /\ sim_calls[c].example = sim_calls[d].example
           /\ sim_calls[d].step = sim_calls[c].step + 1)
          => \A p \in Particles :
                 Last(sim_calls[d].position_sequence)[p] = OutputOf(c)[p]
    /\ \A w \in 1..Len(writes) :
          files[writes[w][1]].complete =>
              \A c \in OkStepCallsOf(writes[w][2]) :
                  \A p \in Particles :
                      files[writes[w][1]].record
                          .predicted_rollout[sim_calls[c].step + 1][p]
                          = OutputOf(c)[p]

\* C16 witness: a step has moved a kinematic particle: the prediction
\* appended for it differs from its newest position in the step's window.
C16_Witness ==
    /\ pc = "for_step"
    /\ step >= 1
    /\ \E p \in Particles :
         /\ features.particle_type[p] = KINEMATIC_PARTICLE_ID
         /\ \E c \in OkStepCallsOf(yielded) :
              /\ sim_calls[c].step = step - 1
              /\ Last(updated_predictions)[p]
                    # Last(sim_calls[c].position_sequence)[p]

\* Every complete file holds the inputs of its example as they were supplied.
RecordsHoldInputs ==
    \A w \in 1..Len(writes) :
        files[writes[w][1]].complete =>
            LET record == files[writes[w][1]].record
                n == writes[w][2]
            IN  /\ record.initial_positions = OwnStart(n)
                /\ record.particle_types = dataset[n].particle_type
                /\ record.global_context = dataset[n].step_context.v

\* C17 (inputs left unchanged): no step of the rollout loop, and not the
\* assembly after it, changes the example's features (positions, graph,
\* particle types, context), the global context read from them or the
\* initial window; and every record written holds the example's own first-W
\* window, particle types and context.
C17_InputsUnchanged ==
    [][/\ pc = "for_step" =>
            /\ features' = features
            /\ features = dataset[yielded]
            /\ global_context' = global_context
            /\ global_context = features.step_context
            /\ initial_positions' = initial_positions
            /\ initial_positions = OwnStart(yielded)
       /\ RecordsHoldInputs']_vars

\* C17 witness: a record has been written after a rollout that slid the
\* window away from the initial one.
C17_Witness ==
    /\ pc = "for_dataset"
    /\ Len(writes) >= 1
    /\ files[writes[Len(writes)][1]].complete
    /\ num_steps >= 2
    /\ current_positions # initial_positions
    /\ files[writes[Len(writes)][1]].record.initial_positions
          = initial_positions

\* The warmup invocations logged.
WarmupCalls == {c \in 1..Len(sim_calls) : sim_calls[c].kind = "warmup"}

\* At most one warmup, the first invocation of the run, made for the first
\* example with the parameters not yet loaded; the parameters are the
\* checkpoint's exactly when loaded; the warmup and the load belong to the
\* first example; every rollout step comes after both.
WarmupThenLoad ==
    /\ Cardinality(WarmupCalls) <= 1
    /\ \A c \in WarmupCalls :
         c = 1 /\ sim_calls[c].example = 1 /\ sim_calls[c].params = InitialParams
    /\ loaded <=> model_params = CheckpointParams
    /\ (loaded \/ pc = "load") => (WarmupCalls = {1} /\ sim_calls[1].ok)
    /\ pc \in {"warmup", "load"} => (yielded = 1 /\ ~loaded)
    /\ \A c \in 1..Len(sim_calls) :
         sim_calls[c].kind = "step" =>
             c > 1 /\ loaded /\ sim_calls[c].params = CheckpointParams

\* C18 (one-time warmup and load): over a run the warmup call and the load
\* happen at most once each, the load after the warmup, both for the first
\* example and before any rollout step; once loaded, the parameters are
\* never loaded again, so every run that reaches a rollout step has made
\* exactly one warmup call and one load.
C18_WarmupAndLoadOnce ==
    [][/\ WarmupThenLoad'
       /\ loaded => (loaded' /\ model_params' = model_params)
       /\ model_params' # model_params =>
             (pc = "load" /\ yielded = 1 /\ WarmupCalls = {1})]_vars

\* C18 witness: the second example is being rolled out, after the one
\* warmup and load of the first.
C18_Witness ==
    /\ yielded = 2
    /\ pc = "for_step"
    /\ step >= 1
    /\ loaded
    /\ WarmupCalls = {1}
    /\ Cardinality(StepCallsOf(1)) >= 1

\* The shape [rows, columns] of a logged context vector.
ShapeOf(passed) == <<Len(passed.v), Len(passed.v[1])>>

\* C19 (warmup and step shapes agree): the context vector of the warmup call
\* has the shape [1, L - 1], L the length of the first example's context,
\* and so has the context vector of every rollout step of that example.
C19_WarmupStepShape ==
    \A w \in WarmupCalls :
        /\ ~sim_calls[w].global_context.isNone
        /\ ShapeOf(sim_calls[w].global_context)
              = <<1, Len(ContextOfExample(sim_calls[w].example)) - 1>>
        /\ \A c \in StepCallsOf(sim_calls[w].example) :
              ShapeOf(sim_calls[c].global_context)
                  = ShapeOf(sim_calls[w].global_context)

\* C19 witness: the first example has been warmed up and rolled out over
\* at least two steps, the first of them with a padded context.
C19_Witness ==
    /\ WarmupCalls = {1}
    /\ Cardinality(OkStepCallsOf(1)) >= 2
    /\ \E c \in OkStepCallsOf(1) :
         sim_calls[c].global_context.v # sim_calls[1].global_context.v

====
